---- MODULE Spec2Model ----
(***************************************************************************)
(* Model of the hive / queen record-keeping backend (bee-API-cloud).       *)
(*                                                                         *)
(* The state is the content of the persistent datastore (the kinds Hives   *)
(* and Queens) together with the requests that are being handled.  Every   *)
(* handler is a promise chain; each link of a chain that performs one      *)
(* datastore call is one atomic action, and the local variables a chain    *)
(* keeps between two links (foundHive, the queen read from the store, the  *)
(* entity about to be written) are part of the request's record.           *)
(*                                                                         *)
(* POST /queens and PUT /queens/:id throw before they reach the store      *)
(* (verifyAttribute returns undefined, on which .then is called), so no    *)
(* handler of this repository creates a queen: the queens the handlers     *)
(* work on are entities already present in the datastore.                  *)
(***************************************************************************)
EXTENDS Integers, Sequences, FiniteSets, TLC

\* ------------------------------------------------------------------------
\* Bounds
\* ------------------------------------------------------------------------
MaxHiveId == 2      \* ids the datastore hands out to new hives: 1..MaxHiveId
MaxQueenId == 2     \* queens present in the datastore at start: 1..MaxQueenId
MaxListed == 7      \* ids of the hives stored when the listing is exercised

HiveIds == 1..MaxHiveId
ListedIds == 1..MaxListed
QueenIds == 1..MaxQueenId

\* ------------------------------------------------------------------------
\* Values
\* ------------------------------------------------------------------------
Null == [isNull |-> TRUE]           \* JavaScript null / undefined

Subjects == {"A", "B"}              \* 'sub' values the identity service knows
NoHeader == "noHeader"              \* request without Authorization header
BadToken == "badToken"              \* token the identity service rejects

\* A route parameter is text.  Two spellings of the same number are kept
\* apart: the canonical decimal one ("1") and one with a leading zero ("01").
Forms == {"canon", "padded"}
IdText(N) == [n : N, form : Forms]

parseInt(text) == text.n
String(n) == [n |-> n, form |-> "canon"]

\* Texts are sequences of characters.  The characters are some of each
\* class the validator's pattern names, and some it does not name.
MaxTextLen == 2
Lower == {"a", "z"}
Upper == {"A", "Z"}
Digit == {"0", "1", "9"}
AlnumSpace == Lower \cup Upper \cup Digit \cup {" "}
Chars == AlnumSpace \cup {"#", "_"}
Texts == UNION {[1..n -> Chars] : n \in 0..MaxTextLen}
TextA == <<"a">>
TextB == <<"a", " ", "1">>
TextBad == <<"a", "#">>

\* Error messages thrown inside the model functions.
ErrJwt == "Missing or invalid JWT"
ErrNotFound == "Hive and/or queen not found"
ErrOwner == "Hive has a different owner"
ErrChars == "invalid characters"
ErrAssigned == "Queen is already assigned"
ErrNotAssoc == "Queen is not associated with this hive"
ErrQueenNotFound == "Queen not found"
ErrStore == "datastore error"
ErrType == "TypeError"
NoErr == "none"

VARIABLES
    hives,          \* datastore kind Hives: id -> entity or Null
    queens,         \* datastore kind Queens: id -> entity or Null
    nextHiveId,     \* next id the datastore allocates to a new hive
    req,            \* request being handled, per connection slot
    bg,             \* removeQueen chain started and not awaited by deleteHive
    users           \* datastore kind Users: the entities in the order saved

vars == <<hives, queens, nextHiveId, req, bg, users>>

\* ------------------------------------------------------------------------
\* Requests
\* ------------------------------------------------------------------------
Slots == {1, 2}                     \* connections; each handles one request at a time

Idle == [op |-> "none", pc |-> "idle", auth |-> NoHeader, hid |-> Null,
         qid |-> Null, body |-> Null, foundHive |-> Null, foundQueen |-> Null,
         newHive |-> Null, status |-> 0, data |-> Null, err |-> NoErr,
         prev |-> "none", cursor |-> Null]

Free(r) == r.pc \in {"idle", "done", "hung"}

\* What the client of connection s remembers when it sends its next request:
\* whether the request before was the assign or the remove of the same
\* caller, hive and queen, answered 204.
Prev(s, auth, hid, qid) ==
    LET o == req[s] IN
    IF /\ o.pc = "done" /\ o.status = 204
       /\ o.op \in {"assignQueen", "removeQueen"}
       /\ o.auth = auth /\ o.hid = hid /\ o.qid = qid
    THEN o.op ELSE "none"

NewReq(s, op, auth, hid, qid, body) ==
    [Idle EXCEPT !.op = op, !.auth = auth, !.hid = hid, !.qid = qid,
                 !.body = body, !.prev = Prev(s, auth, hid, qid)]

\* What stays of a request once its chain has ended.
Ended(r) == [Idle EXCEPT !.op = r.op, !.auth = r.auth, !.hid = r.hid,
                         !.qid = r.qid, !.body = r.body, !.prev = r.prev,
                         !.cursor = r.cursor]

\* res.status(code).json(data): the request is answered.
Respond(r, code, data) ==
    [Ended(r) EXCEPT !.pc = "done", !.status = code, !.data = data]

\* The chain ended in a catch that sends nothing: the request stays open.
Hang(r, msg) == [Ended(r) EXCEPT !.pc = "hung", !.err = msg]

\* ------------------------------------------------------------------------
\* Authentication and verification functions
\* ------------------------------------------------------------------------
\* verifyJwt: the subject of the token, or 'Missing or invalid JWT'.
verifyJwtUnverified(auth) ==
    IF auth \in Subjects THEN [err |-> NoErr, sub |-> auth]
    ELSE IF auth = BadToken THEN [err |-> NoErr, sub |-> "A"]
    ELSE [err |-> ErrJwt, sub |-> auth]

verifyJwt(auth) ==
    IF auth \in Subjects THEN [err |-> NoErr, sub |-> auth]
    ELSE [err |-> ErrJwt, sub |-> auth]

\* verifyBeekeeper: datastore.get of the hive, then the owner check.
verifyBeekeeperNoOwnerCheck(beekeeperId, hiveId) ==
    LET hive == hives[parseInt(hiveId)] IN
    IF hive = Null THEN [err |-> ErrNotFound, hive |-> Null]
    ELSE [err |-> NoErr, hive |-> hive]

verifyBeekeeperAbsentIsForeign(beekeeperId, hiveId) ==
    LET hive == hives[parseInt(hiveId)] IN
    IF hive = Null THEN [err |-> ErrOwner, hive |-> Null]
    ELSE IF hive.beekeeper # beekeeperId THEN [err |-> ErrOwner, hive |-> Null]
    ELSE [err |-> NoErr, hive |-> hive]

verifyBeekeeper(beekeeperId, hiveId) ==
    LET hive == hives[parseInt(hiveId)] IN
    IF hive = Null THEN [err |-> ErrNotFound, hive |-> Null]
    ELSE IF hive.beekeeper # beekeeperId THEN [err |-> ErrOwner, hive |-> Null]
    ELSE [err |-> NoErr, hive |-> hive]

\* verifyJwt(req).then(beekeeperId => verifyBeekeeper(beekeeperId, hiveId))
AuthorizeAnyBeekeeper(auth, hiveId) ==
    IF verifyJwt(auth).err # NoErr THEN [err |-> ErrJwt, hive |-> Null]
    ELSE IF hives[parseInt(hiveId)] = Null THEN [err |-> ErrNotFound, hive |-> Null]
    ELSE [err |-> NoErr, hive |-> hives[parseInt(hiveId)]]

Authorize(auth, hiveId) ==
    IF verifyJwt(auth).err # NoErr THEN [err |-> ErrJwt, hive |-> Null]
    ELSE verifyBeekeeper(verifyJwt(auth).sub, hiveId)

\* verifyAttribute: /^[a-zA-Z0-9 ]+$/.test(attribute).  ClassRun is the
\* position the pattern's [a-zA-Z0-9 ]+ reaches when it starts at i; the
\* pattern matches when the run starts at the first character, holds at
\* least one character and ends where the text ends.
RECURSIVE ClassRun(_, _)
ClassRun(attribute, i) ==
    IF i > Len(attribute) THEN i - 1
    ELSE IF attribute[i] \notin AlnumSpace THEN i - 1
    ELSE ClassRun(attribute, i + 1)

verifyAttributeUnanchored(attribute) ==
    \E i \in 1..Len(attribute) : ClassRun(attribute, i) >= i

verifyAttributeStar(attribute) ==
    ClassRun(attribute, 1) = Len(attribute)

verifyAttribute(attribute) ==
    /\ ClassRun(attribute, 1) >= 1
    /\ ClassRun(attribute, 1) = Len(attribute)

\* ------------------------------------------------------------------------
\* Route error handling: the .catch of each route answers the messages it
\* names and sends nothing for any other error.
\* ------------------------------------------------------------------------
StatusOf(msg) ==
    CASE msg = ErrChars -> 400
      [] msg = ErrJwt -> 401
      [] msg = ErrOwner -> 403
      [] msg = ErrAssigned -> 403
      [] msg = ErrNotAssoc -> 403
      [] msg = ErrNotFound -> 404
      [] OTHER -> 500

PostHiveHandled == {ErrChars, ErrJwt}
GetHivesHandled == {ErrJwt}
GetHiveHandled == {ErrJwt, ErrOwner, ErrNotFound}
DeleteHiveHandled == {ErrNotFound, ErrOwner, ErrJwt}
PutHiveHandled == {ErrChars, ErrJwt, ErrNotFound}
PatchHiveHandled == {ErrChars, ErrJwt, ErrNotFound}
AssignHandled == {ErrNotFound, ErrAssigned, ErrJwt}
RemoveHandled == {ErrNotFound, ErrNotAssoc, ErrJwt}

Catch(r, msg, handled) ==
    IF msg \in handled
    THEN [Respond(r, StatusOf(msg), [Error |-> msg]) EXCEPT !.err = msg]
    ELSE Hang(r, msg)

\* ds.fromDatastore: the entity with its id added.
fromDatastore(item, id) == [id |-> id, item |-> item]

\* ------------------------------------------------------------------------
\* The removeQueen chain.  Each operator is one link: it maps the chain's
\* record p to the record after the link and the store after the link.
\* p.pc = "ok" when the chain resolved, "err" when it rejected (p.err).
\* ------------------------------------------------------------------------
Out(p, hs, qs) == [p |-> p, hives |-> hs, queens |-> qs]
Reject(p, msg) == [p EXCEPT !.pc = "err", !.err = msg]

\* verifyJwt, verifyBeekeeper, then the check of the hive's queen.
removeQueen_verifyClearsStoredHive(p, fail) ==
    LET a == Authorize(p.auth, p.hid) IN
    IF verifyJwt(p.auth).err # NoErr THEN Out(Reject(p, ErrJwt), hives, queens)
    ELSE IF fail THEN Out(Reject(p, ErrStore), hives, queens)
    ELSE IF a.err # NoErr THEN Out(Reject(p, a.err), hives, queens)
    ELSE IF a.hive.queen = Null \/ a.hive.queen.id # p.qid
    THEN Out(Reject(p, ErrNotAssoc), hives, queens)
    ELSE Out([p EXCEPT !.pc = "r_getq",
                       !.foundHive = [a.hive EXCEPT !.queen = Null]],
             [hives EXCEPT ![parseInt(p.hid)] = [a.hive EXCEPT !.queen = Null]],
             queens)

removeQueen_verify(p, fail) ==
    LET a == Authorize(p.auth, p.hid) IN
    IF verifyJwt(p.auth).err # NoErr THEN Out(Reject(p, ErrJwt), hives, queens)
    ELSE IF fail THEN Out(Reject(p, ErrStore), hives, queens)
    ELSE IF a.err # NoErr THEN Out(Reject(p, a.err), hives, queens)
    ELSE IF a.hive.queen = Null \/ a.hive.queen.id # p.qid
    THEN Out(Reject(p, ErrNotAssoc), hives, queens)
    ELSE Out([p EXCEPT !.pc = "r_getq",
                       !.foundHive = [a.hive EXCEPT !.queen = Null]],
             hives, queens)

\* datastore.get(queenKey), then the checks of the queen's hive.
removeQueen_getQueen(p, fail) ==
    LET queen == queens[parseInt(p.qid)] IN
    IF fail THEN Out(Reject(p, ErrStore), hives, queens)
    ELSE IF queen = Null THEN Out(Reject(p, ErrNotFound), hives, queens)
    ELSE IF queen.hive = Null THEN Out(Reject(p, ErrNotAssoc), hives, queens)
    ELSE IF queen.hive.id # p.hid THEN Out(Reject(p, ErrNotAssoc), hives, queens)
    ELSE Out([p EXCEPT !.pc = "r_saveq",
                       !.foundQueen = [queen EXCEPT !.hive = Null]],
             hives, queens)

\* datastore.save(queen[0])
removeQueen_saveQueen(p, fail) ==
    IF fail THEN Out(Reject(p, ErrStore), hives, queens)
    ELSE Out([p EXCEPT !.pc = "r_saveh"], hives,
             [queens EXCEPT ![parseInt(p.qid)] = p.foundQueen])

\* datastore.save(foundHive[0])
removeQueen_saveHive(p, fail) ==
    IF fail THEN Out(Reject(p, ErrStore), hives, queens)
    ELSE Out([p EXCEPT !.pc = "ok"],
             [hives EXCEPT ![parseInt(p.hid)] = p.foundHive], queens)

removeQueen(p, fail) ==
    CASE p.pc = "r_verify" -> removeQueen_verify(p, fail)
      [] p.pc = "r_getq" -> removeQueen_getQueen(p, fail)
      [] p.pc = "r_saveq" -> removeQueen_saveQueen(p, fail)
      [] p.pc = "r_saveh" -> removeQueen_saveHive(p, fail)

RemovePcs == {"r_verify", "r_getq", "r_saveq", "r_saveh"}

\* ------------------------------------------------------------------------
\* The assignQueen chain, link by link.
\* ------------------------------------------------------------------------
\* verifyJwt, verifyBeekeeper; the hive read is kept as foundHive.
assignQueen_verify(p, fail) ==
    LET a == Authorize(p.auth, p.hid) IN
    IF verifyJwt(p.auth).err # NoErr THEN Out(Reject(p, ErrJwt), hives, queens)
    ELSE IF fail THEN Out(Reject(p, ErrStore), hives, queens)
    ELSE IF a.err # NoErr THEN Out(Reject(p, a.err), hives, queens)
    ELSE Out([p EXCEPT !.pc = "a_getq", !.foundHive = a.hive], hives, queens)

\* datastore.get(queenKey), the checks, and the queen's new hive field.
assignQueen_getQueenNoCheck(p, fail) ==
    LET queen == queens[parseInt(p.qid)] IN
    IF fail THEN Out(Reject(p, ErrStore), hives, queens)
    ELSE IF queen = Null THEN Out(Reject(p, ErrNotFound), hives, queens)
    ELSE Out([p EXCEPT !.pc = "a_saveq",
                !.foundQueen = [queen EXCEPT !.hive =
                    [id |-> p.hid, hiveName |-> p.foundHive.hiveName]]],
             hives, queens)

assignQueen_getQueenAbsentAsAssigned(p, fail) ==
    LET queen == queens[parseInt(p.qid)] IN
    IF fail THEN Out(Reject(p, ErrStore), hives, queens)
    ELSE IF queen = Null THEN Out(Reject(p, ErrAssigned), hives, queens)
    ELSE IF queen.hive # Null THEN Out(Reject(p, ErrAssigned), hives, queens)
    ELSE Out([p EXCEPT !.pc = "a_saveq",
                !.foundQueen = [queen EXCEPT !.hive =
                    [id |-> p.hid, hiveName |-> p.foundHive.hiveName]]],
             hives, queens)

assignQueen_getQueen(p, fail) ==
    LET queen == queens[parseInt(p.qid)] IN
    IF fail THEN Out(Reject(p, ErrStore), hives, queens)
    ELSE IF queen = Null THEN Out(Reject(p, ErrNotFound), hives, queens)
    ELSE IF queen.hive # Null THEN Out(Reject(p, ErrAssigned), hives, queens)
    ELSE Out([p EXCEPT !.pc = "a_saveq",
                !.foundQueen = [queen EXCEPT !.hive =
                    [id |-> p.hid, hiveName |-> p.foundHive.hiveName]]],
             hives, queens)

\* datastore.save(queen[0])
assignQueen_saveQueen(p, fail) ==
    IF fail THEN Out(Reject(p, ErrStore), hives, queens)
    ELSE Out([p EXCEPT !.pc = "a_saveh"], hives,
             [queens EXCEPT ![parseInt(p.qid)] = p.foundQueen])

\* foundHive[0].queen = { id: String(queenKey.id), self }; datastore.save
assignQueen_saveHiveNoWrite(p, fail) ==
    IF fail THEN Out(Reject(p, ErrStore), hives, queens)
    ELSE Out([p EXCEPT !.pc = "ok"], hives, queens)

assignQueen_saveHive(p, fail) ==
    IF fail THEN Out(Reject(p, ErrStore), hives, queens)
    ELSE Out([p EXCEPT !.pc = "ok"],
             [hives EXCEPT ![parseInt(p.hid)] =
                 [p.foundHive EXCEPT !.queen = [id |-> String(parseInt(p.qid))]]],
             queens)

assignQueen(p, fail) ==
    CASE p.pc = "a_verify" -> assignQueen_verify(p, fail)
      [] p.pc = "a_getq" -> assignQueen_getQueen(p, fail)
      [] p.pc = "a_saveq" -> assignQueen_saveQueen(p, fail)
      [] p.pc = "a_saveh" -> assignQueen_saveHive(p, fail)

AssignPcs == {"a_verify", "a_getq", "a_saveq", "a_saveh"}

\* The route around a chain: 204 when it resolved, the route's catch when it
\* rejected, and the request still in the chain otherwise.
Settle(p, handled) ==
    IF p.pc = "ok" THEN Respond(p, 204, Null)
    ELSE IF p.pc = "err" THEN Catch(p, p.err, handled)
    ELSE p

\* ------------------------------------------------------------------------
\* Inputs
\* ------------------------------------------------------------------------
\* A specification fixes the inputs its requests are drawn from (K):
\*   slots      connections that send requests
\*   seq        TRUE when a request is sent only after the previous one and
\*              the chains it started have ended
\*   fail       {FALSE}, or BOOLEAN when a datastore call may be rejected
\*   creators   callers of POST /hives
\*   callers    callers of the other hive routes
\*   forms      spellings used for :hive_id and :queen_id
\*   createBodies   bodies of POST /hives
\*   hiveBodies     bodies of PUT and PATCH /hives/:hive_id
\*   queenBodies    bodies of the /queens routes
HiveParams(K) == [n : HiveIds, form : K.forms]
QueenParams(K) == [n : QueenIds, form : K.forms]

\* A JSON body: the attributes it supplies (has) and their values; ct tells
\* whether the request's Content-Type is application/json.
HiveAttrs == {"hiveName", "structureType", "colonySize"}
Body(ct, has, n, t, c) ==
    [ct |-> ct, has |-> has, hiveName |-> n, structureType |-> t, colonySize |-> c]
BodyA == Body(TRUE, HiveAttrs, TextA, TextA, 1)
BodyB == Body(TRUE, HiveAttrs, TextB, TextB, 2)
\* Bodies with a text that holds '#', one that supplies structureType only,
\* and what bodyParser.json leaves of a body that is not application/json.
BodyBadName == Body(TRUE, HiveAttrs, TextBad, TextB, 2)
BodyBadType == Body(TRUE, HiveAttrs, TextB, TextBad, 2)
BodyBadTypeOnly == Body(TRUE, {"structureType"}, TextA, TextBad, 1)
BodyNotJson == Body(FALSE, {}, TextA, TextA, 1)

QueenAttrs == {"name", "species", "age"}
QBody(ct, has, n, sp, a) ==
    [ct |-> ct, has |-> has, name |-> n, species |-> sp, age |-> a]
QBodyA == QBody(TRUE, QueenAttrs, TextA, TextA, 1)
QBodyB == QBody(TRUE, QueenAttrs, TextB, TextB, 2)

\* ------------------------------------------------------------------------
\* Init
\* ------------------------------------------------------------------------
Queen0 == [name |-> TextA, species |-> TextA, age |-> 1, hive |-> Null]

Init ==
    /\ hives = [h \in HiveIds |-> Null]
    /\ queens = [q \in QueenIds |-> Queen0]
    /\ nextHiveId = 1
    /\ req = [s \in Slots |-> Idle]
    /\ bg = [s \in Slots |-> Idle]
    /\ users = <<>>

\* A connection may send a request when none is being answered on it; under
\* the sequential discipline, when every request and every chain a request
\* started has ended.
MayStart(s, K) ==
    /\ s \in K.slots
    /\ Free(req[s])
    /\ K.seq => \A t \in Slots : Free(req[t]) /\ Free(bg[t])

\* ------------------------------------------------------------------------
\* PUT /hives/:hive_id/queens/:queen_id
\* ------------------------------------------------------------------------
AssignStart(s, K) ==
    /\ MayStart(s, K)
    /\ \E auth \in K.callers, hid \in HiveParams(K), qid \in QueenParams(K), fail \in K.fail :
        LET p0 == [NewReq(s, "assignQueen", auth, hid, qid, Null)
                       EXCEPT !.pc = "a_verify"]
            o == assignQueen(p0, fail)
        IN /\ req' = [req EXCEPT ![s] = Settle(o.p, AssignHandled)]
           /\ hives' = o.hives
           /\ queens' = o.queens
    /\ UNCHANGED <<nextHiveId, bg, users>>

AssignStep(s, K) ==
    /\ req[s].op = "assignQueen"
    /\ req[s].pc \in AssignPcs
    /\ \E fail \in K.fail :
        LET o == assignQueen(req[s], fail)
        IN /\ req' = [req EXCEPT ![s] = Settle(o.p, AssignHandled)]
           /\ hives' = o.hives
           /\ queens' = o.queens
    /\ UNCHANGED <<nextHiveId, bg, users>>

\* ------------------------------------------------------------------------
\* DELETE /hives/:hive_id/queens/:queen_id
\* ------------------------------------------------------------------------
RemoveStart(s, K) ==
    /\ MayStart(s, K)
    /\ \E auth \in K.callers, hid \in HiveParams(K), qid \in QueenParams(K), fail \in K.fail :
        LET p0 == [NewReq(s, "removeQueen", auth, hid, qid, Null)
                       EXCEPT !.pc = "r_verify"]
            o == removeQueen(p0, fail)
        IN /\ req' = [req EXCEPT ![s] = Settle(o.p, RemoveHandled)]
           /\ hives' = o.hives
           /\ queens' = o.queens
    /\ UNCHANGED <<nextHiveId, bg, users>>

RemoveStep(s, K) ==
    /\ req[s].op = "removeQueen"
    /\ req[s].pc \in RemovePcs
    /\ \E fail \in K.fail :
        LET o == removeQueen(req[s], fail)
        IN /\ req' = [req EXCEPT ![s] = Settle(o.p, RemoveHandled)]
           /\ hives' = o.hives
           /\ queens' = o.queens
    /\ UNCHANGED <<nextHiveId, bg, users>>

\* ------------------------------------------------------------------------
\* POST /hives
\* ------------------------------------------------------------------------
CreateHive(s, K) ==
    /\ MayStart(s, K)
    /\ \E auth \in K.creators, body \in K.createBodies, fail \in K.fail :
        LET r == NewReq(s, "createHive", auth, Null, Null, body)
            newHive == [hiveName |-> body.hiveName,
                        structureType |-> body.structureType,
                        colonySize |-> body.colonySize,
                        beekeeper |-> auth,
                        queen |-> Null]
        IN
        IF ~body.ct
        THEN /\ req' = [req EXCEPT ![s] = Respond(r, 415, Null)]
             /\ UNCHANGED <<hives, nextHiveId>>
        ELSE IF body.has # HiveAttrs
        THEN /\ req' = [req EXCEPT ![s] = Respond(r, 400, Null)]
             /\ UNCHANGED <<hives, nextHiveId>>
        ELSE IF verifyJwt(auth).err # NoErr
        THEN /\ req' = [req EXCEPT ![s] = Catch(r, ErrJwt, PostHiveHandled)]
             /\ UNCHANGED <<hives, nextHiveId>>
        ELSE IF ~verifyAttribute(body.hiveName) \/ ~verifyAttribute(body.structureType)
        THEN /\ req' = [req EXCEPT ![s] = Catch(r, ErrChars, PostHiveHandled)]
             /\ UNCHANGED <<hives, nextHiveId>>
        ELSE IF fail
        THEN /\ req' = [req EXCEPT ![s] = Catch(r, ErrStore, PostHiveHandled)]
             /\ UNCHANGED <<hives, nextHiveId>>
        ELSE /\ nextHiveId <= MaxHiveId
             /\ hives' = [hives EXCEPT ![nextHiveId] = newHive]
             /\ nextHiveId' = nextHiveId + 1
             /\ req' = [req EXCEPT ![s] =
                          Respond(r, 201, fromDatastore(newHive, String(nextHiveId)))]
    /\ UNCHANGED <<queens, bg, users>>

\* ------------------------------------------------------------------------
\* GET /hives
\* ------------------------------------------------------------------------
PageLimit == 5

\* The ids of a set in the order the datastore returns entities (by key).
RECURSIVE SortedIds(_)
SortedIds(S) ==
    IF S = {} THEN <<>>
    ELSE LET m == CHOOSE x \in S : \A y \in S : x <= y
         IN <<m>> \o SortedIds(S \ {m})

\* datastore.createQuery(HIVES).filter('beekeeper', '=', beekeeper)
allHivesQueryNoFilter(hs, beekeeper) ==
    SortedIds({i \in DOMAIN hs : hs[i] # Null})

allHivesQuery(hs, beekeeper) ==
    SortedIds({i \in DOMAIN hs : hs[i] # Null /\ hs[i].beekeeper = beekeeper})

\* datastore.createQuery(HIVES).limit(5).filter('beekeeper', '=', beekeeper):
\* the query is given no start cursor, so it returns the first entities.
paginHivesQuery(hs, beekeeper) ==
    LET all == allHivesQuery(hs, beekeeper)
    IN SubSeq(all, 1, IF Len(all) < PageLimit THEN Len(all) ELSE PageLimit)

\* info.moreResults !== datastore.NO_MORE_RESULTS, as the datastore may
\* report it: results remain after the limit, none remain before the limit
\* was reached, or the limit was reached with the last result, in which case
\* the datastore reports either.
moreResults(hs, beekeeper) ==
    LET n == Len(allHivesQuery(hs, beekeeper))
    IN IF n > PageLimit THEN {TRUE}
       ELSE IF n = PageLimit THEN BOOLEAN
       ELSE {FALSE}

\* foundHives: total, the entities of the page, and the next link, whose
\* cursor is the position after the last entity of the page.
foundHives(hs, total, page, more) ==
    [total |-> total,
     hives |-> [k \in 1..Len(page) |-> fromDatastore(hs[page[k]], String(page[k]))],
     next |-> IF more THEN [cursor |-> page[Len(page)]] ELSE Null]

\* The cursor a client holds: the one of the next link of the page it was
\* answered last on this connection.
HeldCursors(s) ==
    IF req[s].op = "getHives" /\ req[s].status = 200
    THEN IF req[s].data.next # Null THEN {req[s].data.next.cursor} ELSE {}
    ELSE {}

\* verifyJwt, then the unbounded query whose length is the total.  The
\* request's cursor parameter is never read.
GetHivesStart(s, K) ==
    /\ MayStart(s, K)
    /\ \E auth \in K.callers, follow \in BOOLEAN, fail \in K.fail :
        /\ follow => (HeldCursors(s) # {} /\ auth = req[s].auth)
        /\ LET cursor == IF follow THEN [cursor |-> CHOOSE c \in HeldCursors(s) : TRUE]
                          ELSE Null
               r == [NewReq(s, "getHives", auth, Null, Null, Null)
                        EXCEPT !.cursor = cursor]
           IN req' = [req EXCEPT ![s] =
                IF verifyJwt(auth).err # NoErr THEN Catch(r, ErrJwt, GetHivesHandled)
                ELSE IF fail THEN Catch(r, ErrStore, GetHivesHandled)
                ELSE [r EXCEPT !.pc = "gh_page",
                               !.data = [total |-> Len(allHivesQuery(hives, auth))]]]
    /\ UNCHANGED <<hives, queens, nextHiveId, bg, users>>

\* The query limited to 5, then 200 with foundHives.
GetHivesPage(s, K) ==
    /\ req[s].pc = "gh_page"
    /\ \E fail \in K.fail, more \in moreResults(hives, req[s].auth) :
        req' = [req EXCEPT ![s] =
            IF fail THEN Catch(req[s], ErrStore, GetHivesHandled)
            ELSE Respond(req[s], 200,
                         foundHives(hives, req[s].data.total,
                                    paginHivesQuery(hives, req[s].auth), more))]
    /\ UNCHANGED <<hives, queens, nextHiveId, bg, users>>

\* ------------------------------------------------------------------------
\* GET /hives/:hive_id
\* ------------------------------------------------------------------------
GetHive(s, K) ==
    /\ MayStart(s, K)
    /\ \E auth \in K.callers, hid \in HiveParams(K), fail \in K.fail :
        LET r == NewReq(s, "getHive", auth, hid, Null, Null)
            a == Authorize(auth, hid)
        IN req' = [req EXCEPT ![s] =
              IF verifyJwt(auth).err # NoErr THEN Catch(r, ErrJwt, GetHiveHandled)
              ELSE IF fail THEN Catch(r, ErrStore, GetHiveHandled)
              ELSE IF a.err # NoErr THEN Catch(r, a.err, GetHiveHandled)
              ELSE Respond(r, 200, fromDatastore(a.hive, String(parseInt(hid))))]
    /\ UNCHANGED <<hives, queens, nextHiveId, bg, users>>

\* ------------------------------------------------------------------------
\* DELETE /hives/:hive_id
\* ------------------------------------------------------------------------
\* verifyJwt, verifyBeekeeper; removeQueen is called and not awaited; the
\* delete of the hive is issued next.
DeleteHiveStart(s, K) ==
    /\ MayStart(s, K)
    /\ \E auth \in K.callers, hid \in HiveParams(K), fail \in K.fail :
        LET r == NewReq(s, "deleteHive", auth, hid, Null, Null)
            a == Authorize(auth, hid)
        IN
        IF verifyJwt(auth).err # NoErr
        THEN /\ req' = [req EXCEPT ![s] = Catch(r, ErrJwt, DeleteHiveHandled)]
             /\ bg' = bg
        ELSE IF fail
        THEN /\ req' = [req EXCEPT ![s] = Catch(r, ErrStore, DeleteHiveHandled)]
             /\ bg' = bg
        ELSE IF a.err # NoErr
        THEN /\ req' = [req EXCEPT ![s] = Catch(r, a.err, DeleteHiveHandled)]
             /\ bg' = bg
        ELSE IF a.hive.queen # Null
        THEN /\ Free(bg[s])
             /\ bg' = [bg EXCEPT ![s] =
                         [Idle EXCEPT !.op = "removeQueen", !.pc = "r_verify",
                                      !.auth = auth, !.hid = hid,
                                      !.qid = a.hive.queen.id]]
             /\ req' = [req EXCEPT ![s] = [r EXCEPT !.pc = "dh_delete"]]
        ELSE /\ req' = [req EXCEPT ![s] = [r EXCEPT !.pc = "dh_delete"]]
             /\ bg' = bg
    /\ UNCHANGED <<hives, queens, nextHiveId, users>>

\* datastore.delete(hiveKey), then 204.
DeleteHiveDelete(s, K) ==
    /\ req[s].pc = "dh_delete"
    /\ \E fail \in K.fail :
        IF fail
        THEN /\ req' = [req EXCEPT ![s] = Catch(req[s], ErrStore, DeleteHiveHandled)]
             /\ hives' = hives
        ELSE /\ hives' = [hives EXCEPT ![parseInt(req[s].hid)] = Null]
             /\ req' = [req EXCEPT ![s] = Respond(req[s], 204, Null)]
    /\ UNCHANGED <<queens, nextHiveId, bg, users>>

\* A link of the removeQueen chain that deleteHive left running; nothing
\* observes how the chain settles.
CascadeStep(s, K) ==
    /\ bg[s].pc \in RemovePcs
    /\ \E fail \in K.fail :
        LET o == removeQueen(bg[s], fail)
        IN /\ bg' = [bg EXCEPT ![s] = IF o.p.pc \in {"ok", "err"} THEN Idle ELSE o.p]
           /\ hives' = o.hives
           /\ queens' = o.queens
    /\ UNCHANGED <<nextHiveId, req, users>>

\* ------------------------------------------------------------------------
\* PUT /hives/:hive_id
\* ------------------------------------------------------------------------
\* The entity putHive writes: the body's attributes, the caller as
\* beekeeper, and the queen of the hive that was read.
putHive_newHiveNoQueen(beekeeperId, body, hive) ==
    [hiveName |-> body.hiveName,
     structureType |-> body.structureType,
     colonySize |-> body.colonySize,
     beekeeper |-> beekeeperId,
     queen |-> Null]

putHive_newHive(beekeeperId, body, hive) ==
    [hiveName |-> body.hiveName,
     structureType |-> body.structureType,
     colonySize |-> body.colonySize,
     beekeeper |-> beekeeperId,
     queen |-> hive.queen]

PutHiveStart(s, K) ==
    /\ MayStart(s, K)
    /\ \E auth \in K.callers, hid \in HiveParams(K), body \in K.hiveBodies, fail \in K.fail :
        LET r == NewReq(s, "putHive", auth, hid, Null, body)
            a == Authorize(auth, hid)
        IN req' = [req EXCEPT ![s] =
              IF ~body.ct THEN Respond(r, 415, Null)
              ELSE IF body.has # HiveAttrs THEN Respond(r, 400, Null)
              ELSE IF verifyJwt(auth).err # NoErr THEN Catch(r, ErrJwt, PutHiveHandled)
              ELSE IF fail THEN Catch(r, ErrStore, PutHiveHandled)
              ELSE IF a.err # NoErr THEN Catch(r, a.err, PutHiveHandled)
              ELSE IF ~verifyAttribute(body.hiveName)
                      \/ ~verifyAttribute(body.structureType)
              THEN Catch(r, ErrChars, PutHiveHandled)
              ELSE [r EXCEPT !.pc = "ph_save",
                             !.newHive = putHive_newHive(auth, body, a.hive)]]
    /\ UNCHANGED <<hives, queens, nextHiveId, bg, users>>

\* datastore.save({ key: hiveKey, data: newHive }), then 303 with the hive.
PutHiveSave(s, K) ==
    /\ req[s].pc = "ph_save"
    /\ \E fail \in K.fail :
        IF fail
        THEN /\ req' = [req EXCEPT ![s] = Catch(req[s], ErrStore, PutHiveHandled)]
             /\ hives' = hives
        ELSE /\ hives' = [hives EXCEPT ![parseInt(req[s].hid)] = req[s].newHive]
             /\ req' = [req EXCEPT ![s] =
                  Respond(req[s], 303,
                          fromDatastore(req[s].newHive, String(parseInt(req[s].hid))))]
    /\ UNCHANGED <<queens, nextHiveId, bg, users>>

\* ------------------------------------------------------------------------
\* PATCH /hives/:hive_id
\* ------------------------------------------------------------------------
\* The entity patchHive writes: the hive that was read, with the supplied
\* attributes replaced.
patchHive_dataReplaceAll(body, hive) ==
    [hiveName |-> body.hiveName,
     structureType |-> body.structureType,
     colonySize |-> body.colonySize,
     beekeeper |-> hive.beekeeper,
     queen |-> hive.queen]

patchHive_data(body, hive) ==
    [hiveName |-> IF "hiveName" \in body.has THEN body.hiveName ELSE hive.hiveName,
     structureType |-> IF "structureType" \in body.has THEN body.structureType
                       ELSE hive.structureType,
     colonySize |-> IF "colonySize" \in body.has THEN body.colonySize
                    ELSE hive.colonySize,
     beekeeper |-> hive.beekeeper,
     queen |-> hive.queen]

PatchHiveStart(s, K) ==
    /\ MayStart(s, K)
    /\ \E auth \in K.callers, hid \in HiveParams(K), body \in K.hiveBodies, fail \in K.fail :
        LET r == NewReq(s, "patchHive", auth, hid, Null, body)
            a == Authorize(auth, hid)
        IN req' = [req EXCEPT ![s] =
              IF ~body.ct THEN Respond(r, 415, Null)
              ELSE IF verifyJwt(auth).err # NoErr THEN Catch(r, ErrJwt, PatchHiveHandled)
              ELSE IF fail THEN Catch(r, ErrStore, PatchHiveHandled)
              ELSE IF a.err # NoErr THEN Catch(r, a.err, PatchHiveHandled)
              ELSE IF \/ ("hiveName" \in body.has /\ ~verifyAttribute(body.hiveName))
                      \/ ("structureType" \in body.has
                            /\ ~verifyAttribute(body.structureType))
              THEN Catch(r, ErrChars, PatchHiveHandled)
              ELSE [r EXCEPT !.pc = "pa_save",
                             !.newHive = patchHive_data(body, a.hive)]]
    /\ UNCHANGED <<hives, queens, nextHiveId, bg, users>>

\* datastore.save({ key: hiveKey, data: data }), then 200 with the hive.
PatchHiveSave(s, K) ==
    /\ req[s].pc = "pa_save"
    /\ \E fail \in K.fail :
        IF fail
        THEN /\ req' = [req EXCEPT ![s] = Catch(req[s], ErrStore, PatchHiveHandled)]
             /\ hives' = hives
        ELSE /\ hives' = [hives EXCEPT ![parseInt(req[s].hid)] = req[s].newHive]
             /\ req' = [req EXCEPT ![s] =
                  Respond(req[s], 200,
                          fromDatastore(req[s].newHive, String(parseInt(req[s].hid))))]
    /\ UNCHANGED <<queens, nextHiveId, bg, users>>

\* ------------------------------------------------------------------------
\* /queens routes (queens.js).  No route authenticates the caller.
\* ------------------------------------------------------------------------
\* POST /queens and PUT /queens/:queen_id: createQueen and putQueen call
\* verifyAttribute(name).then(...); verifyAttribute returns undefined or
\* throws, so the handler throws before any store call and the framework
\* answers 500.
CreateQueen(s, K) ==
    /\ MayStart(s, K)
    /\ \E body \in K.queenBodies :
        LET r == NewReq(s, "createQueen", NoHeader, Null, Null, body)
        IN req' = [req EXCEPT ![s] =
              IF ~body.ct THEN Respond(r, 415, Null)
              ELSE IF body.has # QueenAttrs THEN Respond(r, 400, Null)
              ELSE [Respond(r, 500, Null) EXCEPT !.err =
                       IF verifyAttribute(body.name) THEN ErrType ELSE ErrChars]]
    /\ UNCHANGED <<hives, queens, nextHiveId, bg, users>>

PutQueen(s, K) ==
    /\ MayStart(s, K)
    /\ \E qid \in QueenParams(K), body \in K.queenBodies :
        LET r == NewReq(s, "putQueen", NoHeader, Null, qid, body)
        IN req' = [req EXCEPT ![s] =
              IF ~body.ct THEN Respond(r, 415, Null)
              ELSE IF body.has # QueenAttrs THEN Respond(r, 400, Null)
              ELSE [Respond(r, 500, Null) EXCEPT !.err =
                       IF verifyAttribute(body.name) THEN ErrType ELSE ErrChars]]
    /\ UNCHANGED <<hives, queens, nextHiveId, bg, users>>

\* DELETE /queens/:queen_id: datastore.get, then datastore.delete; every
\* rejection is answered 404.
DeleteQueenStart(s, K) ==
    /\ MayStart(s, K)
    /\ \E qid \in QueenParams(K), fail \in K.fail :
        LET r == NewReq(s, "deleteQueen", NoHeader, Null, qid, Null)
        IN req' = [req EXCEPT ![s] =
              IF fail THEN [Respond(r, 404, Null) EXCEPT !.err = ErrStore]
              ELSE IF queens[parseInt(qid)] = Null
              THEN [Respond(r, 404, Null) EXCEPT !.err = ErrQueenNotFound]
              ELSE [r EXCEPT !.pc = "dq_delete"]]
    /\ UNCHANGED <<hives, queens, nextHiveId, bg, users>>

DeleteQueenDelete(s, K) ==
    /\ req[s].pc = "dq_delete"
    /\ \E fail \in K.fail :
        IF fail
        THEN /\ req' = [req EXCEPT ![s] =
                          [Respond(req[s], 404, Null) EXCEPT !.err = ErrStore]]
             /\ queens' = queens
        ELSE /\ queens' = [queens EXCEPT ![parseInt(req[s].qid)] = Null]
             /\ req' = [req EXCEPT ![s] = Respond(req[s], 204, Null)]
    /\ UNCHANGED <<hives, nextHiveId, bg, users>>

\* PATCH /queens/:queen_id.  The entity written holds name, species and age
\* only: the hive field of the queen that was read is not copied.
patchQueen_data(body, queen) ==
    [name |-> IF "name" \in body.has THEN body.name ELSE queen.name,
     species |-> IF "species" \in body.has THEN body.species ELSE queen.species,
     age |-> queen.age,
     hive |-> Null]

PatchQueenStart(s, K) ==
    /\ MayStart(s, K)
    /\ \E qid \in QueenParams(K), body \in K.queenBodies, fail \in K.fail :
        LET r == NewReq(s, "patchQueen", NoHeader, Null, qid, body)
            queen == queens[parseInt(qid)]
        IN req' = [req EXCEPT ![s] =
              IF ~body.ct THEN Respond(r, 415, Null)
              ELSE IF fail THEN [Respond(r, 404, Null) EXCEPT !.err = ErrStore]
              ELSE IF queen = Null THEN [Respond(r, 404, Null) EXCEPT !.err = ErrType]
              ELSE IF \/ ("name" \in body.has /\ ~verifyAttribute(body.name))
                      \/ ("species" \in body.has /\ ~verifyAttribute(body.species))
              THEN [Respond(r, 400, Null) EXCEPT !.err = ErrChars]
              ELSE [r EXCEPT !.pc = "pq_save",
                             !.foundQueen = patchQueen_data(body, queen)]]
    /\ UNCHANGED <<hives, queens, nextHiveId, bg, users>>

PatchQueenSave(s, K) ==
    /\ req[s].pc = "pq_save"
    /\ \E fail \in K.fail :
        IF fail
        THEN /\ req' = [req EXCEPT ![s] =
                          [Respond(req[s], 404, Null) EXCEPT !.err = ErrStore]]
             /\ queens' = queens
        ELSE /\ queens' = [queens EXCEPT ![parseInt(req[s].qid)] = req[s].foundQueen]
             /\ req' = [req EXCEPT ![s] = Respond(req[s], 200, req[s].foundQueen)]
    /\ UNCHANGED <<hives, nextHiveId, bg, users>>

\* ------------------------------------------------------------------------
\* Specifications
\* ------------------------------------------------------------------------
\* Requests run one at a time, the datastore never fails, and the caller is
\* the beekeeper of every hive; route parameters come in both spellings.
KSeq == [slots |-> {1}, seq |-> TRUE, fail |-> {FALSE},
         creators |-> {"A"}, callers |-> {"A"}, forms |-> Forms,
         createBodies |-> {BodyA}, hiveBodies |-> {BodyA},
         queenBodies |-> {QBodyA}]

NextOf(K) ==
    \E s \in K.slots :
        \/ CreateHive(s, K)
        \/ GetHive(s, K)
        \/ DeleteHiveStart(s, K)
        \/ DeleteHiveDelete(s, K)
        \/ CascadeStep(s, K)
        \/ PutHiveStart(s, K)
        \/ PutHiveSave(s, K)
        \/ PatchHiveStart(s, K)
        \/ PatchHiveSave(s, K)
        \/ AssignStart(s, K)
        \/ AssignStep(s, K)
        \/ RemoveStart(s, K)
        \/ RemoveStep(s, K)
        \/ CreateQueen(s, K)
        \/ PutQueen(s, K)
        \/ DeleteQueenStart(s, K)
        \/ DeleteQueenDelete(s, K)
        \/ PatchQueenStart(s, K)
        \/ PatchQueenSave(s, K)

Next == NextOf(KSeq)

Spec == Init /\ [][Next]_vars

\* The hive routes called by the beekeeper A of every hive and by another
\* beekeeper B, with PUT and PATCH bodies that differ from what is stored.
KOwn == [KSeq EXCEPT !.callers = Subjects, !.forms = {"canon"},
                     !.hiveBodies = {BodyB}]

NextOwn ==
    \E s \in KOwn.slots :
        \/ CreateHive(s, KOwn)
        \/ GetHive(s, KOwn)
        \/ DeleteHiveStart(s, KOwn)
        \/ DeleteHiveDelete(s, KOwn)
        \/ CascadeStep(s, KOwn)
        \/ PutHiveStart(s, KOwn)
        \/ PutHiveSave(s, KOwn)
        \/ PatchHiveStart(s, KOwn)
        \/ PatchHiveSave(s, KOwn)
        \/ AssignStart(s, KOwn)
        \/ AssignStep(s, KOwn)
        \/ RemoveStart(s, KOwn)
        \/ RemoveStep(s, KOwn)

SpecOwn == Init /\ [][NextOwn]_vars

\* Only POST /hives and assign, by the owner.
KAssign == KSeq

NextAssign ==
    \E s \in KAssign.slots :
        \/ CreateHive(s, KAssign)
        \/ AssignStart(s, KAssign)
        \/ AssignStep(s, KAssign)

SpecAssign == Init /\ [][NextAssign]_vars

\* POST /hives, assign and remove by the owner, with datastore calls that
\* may be rejected.
KFail == [KSeq EXCEPT !.fail = BOOLEAN]

NextFail ==
    \E s \in KFail.slots :
        \/ CreateHive(s, KFail)
        \/ AssignStart(s, KFail)
        \/ AssignStep(s, KFail)
        \/ RemoveStart(s, KFail)
        \/ RemoveStep(s, KFail)

SpecFail == Init /\ [][NextFail]_vars

\* Connection 1 sends POST /hives, assign and remove while connection 2 sends
\* GET /hives/:hive_id; a request is sent whenever its connection is free, so
\* the reads fall between the links of the chains of connection 1.
KConc == [KSeq EXCEPT !.slots = {1, 2}, !.seq = FALSE, !.forms = {"canon"}]

NextConc ==
    \/ CreateHive(1, KConc)
    \/ AssignStart(1, KConc)
    \/ AssignStep(1, KConc)
    \/ RemoveStart(1, KConc)
    \/ RemoveStep(1, KConc)
    \/ GetHive(2, KConc)

SpecConc == Init /\ [][NextConc]_vars

\* GET /hives by A and by B on a store that holds hives of both, as POST
\* /hives and DELETE /hives/:hive_id leave it; the store does not change
\* while the pages are requested.
Hive0(beekeeperId) ==
    [hiveName |-> TextA, structureType |-> TextA, colonySize |-> 1,
     beekeeper |-> beekeeperId, queen |-> Null]

InitList ==
    /\ hives \in [ListedIds -> {Null} \cup {Hive0(b) : b \in Subjects}]
    /\ queens = [q \in QueenIds |-> Queen0]
    /\ nextHiveId = MaxListed + 1
    /\ req = [s \in Slots |-> Idle]
    /\ bg = [s \in Slots |-> Idle]
    /\ users = <<>>

KList == [KSeq EXCEPT !.callers = Subjects]

NextList ==
    \E s \in KList.slots :
        \/ GetHivesStart(s, KList)
        \/ GetHivesPage(s, KList)

SpecList == InitList /\ [][NextList]_vars

\* Every hive route, called by the beekeeper A, without Authorization header
\* and with a token the identity service rejects, with bodies that are
\* valid, that hold a text with '#', and that are not application/json.
KInput == [KSeq EXCEPT !.creators = {"A", NoHeader, BadToken},
                       !.callers = {"A", NoHeader, BadToken},
                       !.forms = {"canon"},
                       !.createBodies = {BodyA, BodyBadName, BodyBadType, BodyNotJson},
                       !.hiveBodies = {BodyB, BodyBadName, BodyBadType,
                                       BodyBadTypeOnly, BodyNotJson}]

NextInput ==
    \E s \in KInput.slots :
        \/ CreateHive(s, KInput)
        \/ GetHivesStart(s, KInput)
        \/ GetHivesPage(s, KInput)
        \/ GetHive(s, KInput)
        \/ DeleteHiveStart(s, KInput)
        \/ DeleteHiveDelete(s, KInput)
        \/ CascadeStep(s, KInput)
        \/ PutHiveStart(s, KInput)
        \/ PutHiveSave(s, KInput)
        \/ PatchHiveStart(s, KInput)
        \/ PatchHiveSave(s, KInput)
        \/ AssignStart(s, KInput)
        \/ AssignStep(s, KInput)
        \/ RemoveStart(s, KInput)
        \/ RemoveStep(s, KInput)

SpecInput == Init /\ [][NextInput]_vars

\* The validator applied to every text of up to MaxTextLen characters.
InitAttr ==
    /\ hives = [h \in HiveIds |-> Null]
    /\ queens = [q \in QueenIds |-> Queen0]
    /\ nextHiveId = 1
    /\ \E text \in Texts :
          req = [s \in Slots |->
                   IF s = 1 THEN [Idle EXCEPT !.op = "verifyAttribute",
                                              !.pc = "call", !.body = text]
                   ELSE Idle]
    /\ bg = [s \in Slots |-> Idle]
    /\ users = <<>>

verifyAttributeCall(s) ==
    /\ req[s].op = "verifyAttribute"
    /\ req[s].pc = "call"
    /\ req' = [req EXCEPT ![s] =
                  [@ EXCEPT !.pc = "done",
                            !.err = IF verifyAttribute(req[s].body) THEN NoErr
                                    ELSE ErrChars]]
    /\ UNCHANGED <<hives, queens, nextHiveId, bg, users>>

NextAttr == \E s \in Slots : verifyAttributeCall(s)

SpecAttr == InitAttr /\ [][NextAttr]_vars

\* POST /hives, PUT, PATCH, assign and remove sent by A on connection 1, and
\* POST /hives, PUT and PATCH sent by B on connection 2; a request is sent
\* whenever its connection is free, so the chains of the two connections
\* interleave link by link.
KOwnerA == [KSeq EXCEPT !.slots = {1, 2}, !.seq = FALSE,
                        !.forms = {"canon"}, !.hiveBodies = {BodyB}]
KOwnerB == [KOwnerA EXCEPT !.creators = {"B"}, !.callers = {"B"}]

NextOwner ==
    \/ CreateHive(1, KOwnerA)
    \/ PutHiveStart(1, KOwnerA)
    \/ PutHiveSave(1, KOwnerA)
    \/ PatchHiveStart(1, KOwnerA)
    \/ PatchHiveSave(1, KOwnerA)
    \/ AssignStart(1, KOwnerA)
    \/ AssignStep(1, KOwnerA)
    \/ RemoveStart(1, KOwnerA)
    \/ RemoveStep(1, KOwnerA)
    \/ CreateHive(2, KOwnerB)
    \/ PutHiveStart(2, KOwnerB)
    \/ PutHiveSave(2, KOwnerB)
    \/ PatchHiveStart(2, KOwnerB)
    \/ PatchHiveSave(2, KOwnerB)

SpecOwner == Init /\ [][NextOwner]_vars

\* ------------------------------------------------------------------------
\* The relation as the store holds it
\* ------------------------------------------------------------------------
\* Hive i holds a reference to queen j; queen j holds a reference to hive i.
HiveRefs(hs, i, j) ==
    hs[i] # Null /\ hs[i].queen # Null /\ parseInt(hs[i].queen.id) = j
QueenRefs(qs, j, i) ==
    qs[j] # Null /\ qs[j].hive # Null /\ parseInt(qs[j].hive.id) = i

\* No request is being handled and no chain is running.
Quiet == \A s \in Slots : Free(req[s]) /\ Free(bg[s])

HiveScopedOps == {"getHive", "putHive", "patchHive", "deleteHive",
                  "assignQueen", "removeQueen"}

\* The step is a step of the request on connection s, which is a request on
\* a stored hive whose beekeeper is not the caller.
ForeignStep(s) ==
    /\ req'[s] # req[s]
    /\ req'[s].op \in HiveScopedOps
    /\ req'[s].auth \in Subjects
    /\ hives[parseInt(req'[s].hid)] # Null
    /\ hives[parseInt(req'[s].hid)].beekeeper # req'[s].auth

\* A response body that carries a hive.
IsHiveData(d) == "item" \in DOMAIN d

\* ------------------------------------------------------------------------
\* Claims
\* ------------------------------------------------------------------------
\* C1 (mutual consistency): whenever every request sent so far has ended and
\* requests were run one at a time, for every stored hive h and stored queen
\* q, h references q exactly when q references h.
C1_MutualConsistency ==
    Quiet => \A i \in HiveIds, j \in QueenIds :
                (hives[i] # Null /\ queens[j] # Null)
                    => (HiveRefs(hives, i, j) <=> QueenRefs(queens, j, i))

\* C3 (ownership isolation of state): a step of a hive-scoped request whose
\* caller is not the beekeeper of the stored hive leaves every hive and every
\* queen as stored and puts no hive in the response.
C3_ForeignCallerChangesNothing ==
    [][\A s \in Slots :
          ForeignStep(s) => /\ hives' = hives
                            /\ queens' = queens
                            /\ ~IsHiveData(req'[s].data)]_vars

\* C3 witness: a request of B on a hive of A was rejected by the owner check.
C3_Witness ==
    \E s \in Slots :
        /\ Free(req[s]) /\ req[s].err = ErrOwner /\ req[s].auth = "B"
        /\ req[s].op = "deleteHive"
        /\ hives[parseInt(req[s].hid)] # Null
        /\ hives[parseInt(req[s].hid)].beekeeper = "A"

\* C4 (ownership isolation of responses): a hive-scoped request on a stored
\* hive whose beekeeper is not the caller ends answered 403.
C4_ForeignCallerGets403 ==
    [][\A s \in Slots :
          (ForeignStep(s) /\ Free(req'[s]))
              => (req'[s].pc = "done" /\ req'[s].status = 403)]_vars

\* C2 (strict 0..1 to 0..1): after any sequence of assign requests by the
\* owner, no two queens reference the same hive and no two hives reference
\* the same queen.
C2_StrictOneToOne ==
    Quiet =>
        /\ \A i \in HiveIds, j1 \in QueenIds, j2 \in QueenIds :
              (QueenRefs(queens, j1, i) /\ QueenRefs(queens, j2, i)) => j1 = j2
        /\ \A j \in QueenIds, i1 \in HiveIds, i2 \in HiveIds :
              (HiveRefs(hives, i1, j) /\ HiveRefs(hives, i2, j)) => i1 = i2

\* The step ends an assign request with 204.
AssignSucceeds(s) ==
    /\ req'[s] # req[s]
    /\ req'[s].op = "assignQueen"
    /\ req'[s].pc = "done"
    /\ req'[s].status = 204

\* C5 (assignment round trip): when assign(A, H, Q) is answered 204, the
\* stored hive H references Q and the stored queen Q references H.
C5_AssignRoundTrip ==
    [][\A s \in Slots :
          AssignSucceeds(s) =>
              /\ HiveRefs(hives', parseInt(req'[s].hid), parseInt(req'[s].qid))
              /\ QueenRefs(queens', parseInt(req'[s].qid), parseInt(req'[s].hid))]_vars

\* C5 witness: an assign by the owner was answered 204.
C5_Witness ==
    \E s \in Slots :
        /\ req[s].op = "assignQueen" /\ req[s].pc = "done" /\ req[s].status = 204
        /\ HiveRefs(hives, parseInt(req[s].hid), parseInt(req[s].qid))

\* The step is the first or the second link of an assign request by the
\* beekeeper of a stored hive, for a stored queen that references a hive.
AssignOfAssignedQueen(s) ==
    /\ req'[s] # req[s]
    /\ req'[s].op = "assignQueen"
    /\ Free(req[s]) \/ req[s].pc = "a_getq"
    /\ hives[parseInt(req'[s].hid)] # Null
    /\ hives[parseInt(req'[s].hid)].beekeeper = req'[s].auth
    /\ queens[parseInt(req'[s].qid)] # Null
    /\ queens[parseInt(req'[s].qid)].hive # Null

\* C6 (double assignment rejected): an assign of a queen that references a
\* hive writes nothing and ends with the Conflict 'Queen is already assigned'.
C6_DoubleAssignRejected ==
    [][\A s \in Slots :
          AssignOfAssignedQueen(s) =>
              /\ hives' = hives
              /\ queens' = queens
              /\ \/ req'[s].pc = "a_getq"
                 \/ /\ req'[s].pc = "done"
                    /\ req'[s].status = 403
                    /\ req'[s].err = ErrAssigned]_vars

\* C6 witness: an assign for a queen held by another hive was answered with
\* the Conflict, and the queen is still held by that hive.
C6_Witness ==
    \E s \in Slots :
        /\ req[s].op = "assignQueen" /\ req[s].pc = "done"
        /\ req[s].err = ErrAssigned
        /\ \E i \in HiveIds :
              /\ i # parseInt(req[s].hid)
              /\ QueenRefs(queens, parseInt(req[s].qid), i)
              /\ HiveRefs(hives, i, parseInt(req[s].qid))
        /\ hives[parseInt(req[s].hid)] # Null
        /\ hives[parseInt(req[s].hid)].queen = Null

\* C7 (removal symmetry): a remove sent right after the successful assign of
\* the same caller, hive and queen is answered 204 and leaves neither
\* reference; a remove sent right after that successful remove writes
\* nothing and ends with the Conflict 'Queen is not associated with this
\* hive'.
C7_RemovalSymmetry ==
    [][\A s \in Slots :
          (req'[s] # req[s] /\ req'[s].op = "removeQueen") =>
              /\ (req'[s].prev = "assignQueen" /\ Free(req'[s])) =>
                    /\ req'[s].pc = "done" /\ req'[s].status = 204
                    /\ ~HiveRefs(hives', parseInt(req'[s].hid), parseInt(req'[s].qid))
                    /\ ~QueenRefs(queens', parseInt(req'[s].qid), parseInt(req'[s].hid))
              /\ req'[s].prev = "removeQueen" =>
                    /\ hives' = hives /\ queens' = queens
                    /\ req'[s].pc = "done" /\ req'[s].status = 403
                    /\ req'[s].err = ErrNotAssoc]_vars

\* C8 (cascade on hive deletion): once DELETE /hives/:id is answered 204, no
\* stored queen references the deleted hive.
C8_CascadeOnHiveDelete ==
    \A s \in Slots :
        (req[s].op = "deleteHive" /\ req[s].pc = "done" /\ req[s].status = 204)
            => \A j \in QueenIds : ~QueenRefs(queens, j, parseInt(req[s].hid))

\* C9 (cascade on queen deletion): once DELETE /queens/:id is answered 204,
\* no stored hive references the deleted queen.
C9_CascadeOnQueenDelete ==
    \A s \in Slots :
        (req[s].op = "deleteQueen" /\ req[s].pc = "done" /\ req[s].status = 204)
            => \A i \in HiveIds : ~HiveRefs(hives, i, parseInt(req[s].qid))

\* C10 (atomicity under partial failure): when an assign or a remove has
\* ended, whether answered or not, the hive references the queen exactly
\* when the queen references the hive.
C10_BothSidesOrNeither ==
    \A s \in Slots :
        (Free(req[s]) /\ req[s].op \in {"assignQueen", "removeQueen"})
            => (HiveRefs(hives, parseInt(req[s].hid), parseInt(req[s].qid))
                  <=> QueenRefs(queens, parseInt(req[s].qid), parseInt(req[s].hid)))

\* C11 (atomicity against concurrent readers): when GET /hives/:hive_id is
\* answered with the hive while an assign or a remove of that hive and a
\* queen is in progress, the hive in the answer references the queen exactly
\* when the stored queen references the hive.
C11_ReaderSeesBothOrNeither ==
    [][\A s \in Slots :
          (req'[s] # req[s] /\ req'[s].op = "getHive" /\ req'[s].status = 200)
          => \A t \in Slots, j \in QueenIds :
                ( /\ req[t].op \in {"assignQueen", "removeQueen"}
                  /\ ~Free(req[t])
                  /\ parseInt(req[t].hid) = parseInt(req'[s].hid)
                  /\ parseInt(req[t].qid) = j )
                => ( ( /\ req'[s].data.item.queen # Null
                       /\ parseInt(req'[s].data.item.queen.id) = j )
                     <=> QueenRefs(queens, j, parseInt(req'[s].hid)) )]_vars

\* ------------------------------------------------------------------------
\* The listing
\* ------------------------------------------------------------------------
\* GET /hives was answered with a page on connection s.
ListAnswered(s) ==
    req[s].op = "getHives" /\ req[s].pc = "done" /\ req[s].status = 200

\* The ids of the hives on the page of an answer.
PageIds(d) == [k \in 1..Len(d.hives) |-> parseInt(d.hives[k].id)]

\* The hives of the caller of connection s, in the store's order.
OwnHives(s) == SortedIds({i \in DOMAIN hives :
                            hives[i] # Null /\ hives[i].beekeeper = req[s].auth})

\* How many of the caller's hives lie before the position the request's
\* cursor stands for: none without a cursor.
Consumed(s) ==
    IF req[s].cursor = Null THEN 0
    ELSE Cardinality({k \in 1..Len(OwnHives(s)) :
                        OwnHives(s)[k] <= req[s].cursor.cursor})

\* C12 (pagination completeness): on an unchanged store, the page answered
\* to a request holds the caller's hives that follow the position of the
\* request's cursor (the first ones without a cursor), at most 5 of them; a
\* page with a next link holds 5 hives and a page without one ends the
\* caller's hives, so that following the next links visits every hive once.
C12_PagesPartitionTheHives ==
    \A s \in Slots :
        ListAnswered(s) =>
            LET all == OwnHives(s)
                k == Consumed(s)
                last == IF k + PageLimit < Len(all) THEN k + PageLimit ELSE Len(all)
            IN /\ PageIds(req[s].data) = SubSeq(all, k + 1, last)
               /\ req[s].data.next # Null => Len(req[s].data.hives) = PageLimit
               /\ req[s].data.next = Null => k + Len(req[s].data.hives) = Len(all)

\* C13 (page shape): every page answered holds at most 5 hives, its total is
\* the number of the caller's hives, and it carries a next link only when
\* some of the caller's hives remain after the page that was requested.
C13_PageShape ==
    \A s \in Slots :
        ListAnswered(s) =>
            /\ Len(req[s].data.hives) <= PageLimit
            /\ req[s].data.total = Len(OwnHives(s))
            /\ req[s].data.next # Null
                  => Consumed(s) + Len(req[s].data.hives) < Len(OwnHives(s))

\* C14 (owner-scoped listing): every hive on a page answered to S has
\* beekeeper S, and the total of the page is the number of stored hives
\* whose beekeeper is S.
C14_OwnerScopedListing ==
    \A s \in Slots :
        ListAnswered(s) =>
            /\ \A k \in 1..Len(req[s].data.hives) :
                  /\ req[s].data.hives[k].item.beekeeper = req[s].auth
                  /\ hives[parseInt(req[s].data.hives[k].id)] = req[s].data.hives[k].item
            /\ req[s].data.total =
                  Cardinality({i \in DOMAIN hives :
                                 hives[i] # Null /\ hives[i].beekeeper = req[s].auth})

\* C14 witness: A was answered a page that holds a hive while the store
\* holds a hive of B.
C14_Witness ==
    \E s \in Slots :
        /\ ListAnswered(s) /\ req[s].auth = "A"
        /\ Len(req[s].data.hives) > 0
        /\ \E i \in DOMAIN hives : hives[i] # Null /\ hives[i].beekeeper = "B"

\* ------------------------------------------------------------------------
\* Validation
\* ------------------------------------------------------------------------
Letters == {"a", "z", "A", "Z"}
Digits == {"0", "1", "9"}

\* The text holds a character that is no letter, no digit and no space.
HasForeignChar(text) ==
    \E i \in 1..Len(text) : text[i] \notin Letters \cup Digits \cup {" "}

\* C16 (attribute validator): the validator accepts a text exactly when the
\* text is not empty and each of its characters is a letter, a digit or a
\* space, and a call of it leaves the store as it was.
C16_ValidatorAcceptsExactlyAlnumSpace ==
    \A s \in Slots :
        (req[s].op = "verifyAttribute" /\ req[s].pc = "done")
        => /\ (req[s].err = NoErr)
                <=> (Len(req[s].body) > 0 /\ ~HasForeignChar(req[s].body))
           /\ hives = [h \in HiveIds |-> Null]
           /\ queens = [q \in QueenIds |-> Queen0]
           /\ nextHiveId = 1

\* C16 witness: the validator rejected a text that holds a letter and '#'.
C16_Witness ==
    \E s \in Slots :
        /\ req[s].op = "verifyAttribute" /\ req[s].pc = "done"
        /\ req[s].body = <<"A", "#">>
        /\ req[s].err = ErrChars

\* The request r is a create, PUT or PATCH of a hive by an authenticated
\* caller (for PUT and PATCH: the beekeeper of the stored hive), with a JSON
\* body that has the attributes the route requires, in which a supplied
\* hiveName or structureType holds a foreign character.
BadTextRequest(r) ==
    /\ r.op \in {"createHive", "putHive", "patchHive"}
    /\ r.auth \in Subjects
    /\ r.body.ct
    /\ r.op \in {"createHive", "putHive"} => r.body.has = HiveAttrs
    /\ r.op \in {"putHive", "patchHive"}
          => /\ hives[parseInt(r.hid)] # Null
             /\ hives[parseInt(r.hid)].beekeeper = r.auth
    /\ \/ "hiveName" \in r.body.has /\ HasForeignChar(r.body.hiveName)
       \/ "structureType" \in r.body.has /\ HasForeignChar(r.body.structureType)

\* C15 (validation before write): every step of a create, PUT or PATCH whose
\* supplied hiveName or structureType holds a character that is no letter,
\* digit or space answers 400 and leaves the store as it was.
C15_ValidationBeforeWrite ==
    [][\A s \in Slots :
          (req'[s] # req[s] /\ BadTextRequest(req'[s]))
          => /\ req'[s].pc = "done" /\ req'[s].status = 400
             /\ hives' = hives
             /\ queens' = queens
             /\ nextHiveId' = nextHiveId]_vars

\* C15 witness: a PATCH of a stored hive that supplied only a structureType
\* with '#' was answered 400.
C15_Witness ==
    \E s \in Slots :
        /\ req[s].op = "patchHive" /\ req[s].pc = "done" /\ req[s].status = 400
        /\ req[s].err = ErrChars
        /\ req[s].body = BodyBadTypeOnly
        /\ hives[parseInt(req[s].hid)] # Null

\* ------------------------------------------------------------------------
\* Authentication
\* ------------------------------------------------------------------------
HiveRouteOps == HiveScopedOps \cup {"createHive", "getHives"}

\* The step is a step of a hive route request on connection s that carries
\* no Authorization header or a token the identity service rejects.
UnauthenticatedStep(s) ==
    /\ req'[s] # req[s]
    /\ req'[s].op \in HiveRouteOps
    /\ req'[s].auth \notin Subjects

StoreUnchanged ==
    hives' = hives /\ queens' = queens /\ nextHiveId' = nextHiveId

\* What the route answers to a body before it authenticates the caller:
\* 415 when POST, PUT or PATCH is not application/json, 400 when POST or PUT
\* lacks a required attribute, and nothing (0) otherwise.
BodyStatus(r) ==
    IF r.op \in {"createHive", "putHive", "patchHive"} /\ ~r.body.ct THEN 415
    ELSE IF r.op \in {"createHive", "putHive"} /\ r.body.has # HiveAttrs THEN 400
    ELSE 0

C17_PutReplacesThreeFields ==
    [][\A s \in Slots :
          ( /\ req[s].op = "putHive" /\ req[s].pc = "ph_save"
            /\ req'[s].pc = "done" /\ req'[s].status = 303 )
          => LET i == parseInt(req[s].hid) IN
             /\ hives[i] # Null
             /\ hives' = [hives EXCEPT ![i] =
                    [hives[i] EXCEPT !.hiveName = req[s].body.hiveName,
                                     !.structureType = req[s].body.structureType,
                                     !.colonySize = req[s].body.colonySize]]
             /\ queens' = queens]_vars

\* C17 witness: PUT was answered 303 for a hive that holds a queen, and the
\* stored hive has the body's name and still holds the queen.
C17_Witness ==
    \E s \in Slots :
        /\ req[s].op = "putHive" /\ req[s].pc = "done" /\ req[s].status = 303
        /\ hives[parseInt(req[s].hid)] # Null
        /\ hives[parseInt(req[s].hid)].queen # Null
        /\ hives[parseInt(req[s].hid)].hiveName = BodyB.hiveName

\* C18 (owner): a hive enters the store by a POST /hives answered 201, with
\* the caller of that request as beekeeper, and no step of a PUT, PATCH,
\* assign or remove, however the requests interleave, changes the beekeeper
\* stored for a hive id.
C18_OwnerIsCreatorAndNeverChanges ==
    [][\A i \in HiveIds :
          /\ hives[i] # Null
                => hives'[i] # Null /\ hives'[i].beekeeper = hives[i].beekeeper
          /\ (hives[i] = Null /\ hives'[i] # Null)
                => \E s \in Slots :
                      /\ req'[s] # req[s]
                      /\ req'[s].op = "createHive" /\ req'[s].status = 201
                      /\ parseInt(req'[s].data.id) = i
                      /\ req'[s].auth \in Subjects
                      /\ hives'[i].beekeeper = req'[s].auth]_vars

\* C18 witness: a hive created by B was replaced through PUT by B and B is
\* still its beekeeper, while the other hive, of A, holds a queen and was
\* changed through PUT or PATCH.
C18_Witness ==
    \E s \in Slots :
        /\ req[s].op = "putHive" /\ req[s].pc = "done" /\ req[s].status = 303
        /\ req[s].auth = "B"
        /\ hives[parseInt(req[s].hid)].beekeeper = "B"
        /\ \E i \in HiveIds :
              /\ hives[i] # Null /\ hives[i].beekeeper = "A"
              /\ hives[i].hiveName = BodyB.hiveName
              /\ hives[i].queen # Null

\* C20 (authorizeHiveAccess): GET /hives/:hive_id by an authenticated caller
\* is answered with not found (404) when no hive with that id is stored,
\* whoever the caller is, with forbidden (403) when the stored hive has
\* another beekeeper, and with the stored hive (200) otherwise; the step
\* writes nothing to the store.
C20_AuthorizeOutcomes ==
    [][\A s \in Slots :
          (req'[s] # req[s] /\ req'[s].op = "getHive" /\ req'[s].auth \in Subjects)
          => LET i == parseInt(req'[s].hid)
                 r == req'[s]
             IN /\ r.pc = "done"
                /\ hives[i] = Null => (r.status = 404 /\ r.err = ErrNotFound)
                /\ (hives[i] # Null /\ hives[i].beekeeper # r.auth)
                      => (r.status = 403 /\ r.err = ErrOwner)
                /\ (hives[i] # Null /\ hives[i].beekeeper = r.auth)
                      => (r.status = 200 /\ r.data.item = hives[i])
                /\ StoreUnchanged]_vars

\* C20 witness: GET by B of a stored hive of A was answered 403 while the
\* other hive id holds no hive.
C20_Witness ==
    \E s \in Slots :
        /\ req[s].op = "getHive" /\ req[s].pc = "done" /\ req[s].status = 403
        /\ req[s].auth = "B"
        /\ hives[parseInt(req[s].hid)] # Null
        /\ hives[parseInt(req[s].hid)].beekeeper = "A"
        /\ \E i \in HiveIds : hives[i] = Null

\* ------------------------------------------------------------------------
\* Responses
\* ------------------------------------------------------------------------
\* Every hive route called by the beekeeper A, with datastore calls that may
\* be rejected.  The callback of a settled promise is run by the event loop,
\* so a chain that can take its next link takes it; nothing obliges a client
\* to send a request.
KLive == [KSeq EXCEPT !.fail = BOOLEAN, !.forms = {"canon"}]

ChainStep(s, K) ==
    \/ GetHivesPage(s, K)
    \/ DeleteHiveDelete(s, K)
    \/ CascadeStep(s, K)
    \/ PutHiveSave(s, K)
    \/ PatchHiveSave(s, K)
    \/ AssignStep(s, K)
    \/ RemoveStep(s, K)

NextLive ==
    \E s \in KLive.slots :
        \/ CreateHive(s, KLive)
        \/ GetHivesStart(s, KLive)
        \/ GetHive(s, KLive)
        \/ DeleteHiveStart(s, KLive)
        \/ PutHiveStart(s, KLive)
        \/ PatchHiveStart(s, KLive)
        \/ AssignStart(s, KLive)
        \/ RemoveStart(s, KLive)
        \/ ChainStep(s, KLive)

SpecLive ==
    /\ Init
    /\ [][NextLive]_vars
    /\ WF_vars(\E s \in KLive.slots : ChainStep(s, KLive))

\* C21 (every request is answered): a request to a hive route that has been
\* received and not answered is eventually answered.
C21_EveryRequestAnswered ==
    \A s \in Slots : (req[s].pc \notin {"idle", "done"}) ~> (req[s].pc = "done")

\* ------------------------------------------------------------------------
\* GET /oauth (login.js)
\* ------------------------------------------------------------------------
MaxUsers == 3

ErrOauth == "oauth request failed"

\* response.data.names[0] of the People API for the account of a subject.
UserInfo(sub) == [givenName |-> sub, familyName |-> sub, id |-> sub]

\* createUser: the entity saved under a key the datastore allocates.
createUser_newUser(userInfo) ==
    [firstName |-> userInfo.givenName,
     lastName |-> userInfo.familyName,
     userId |-> userInfo.id,
     isBeekeeper |-> TRUE]

\* getServerToken: the code of the redirect is exchanged for the token of
\* the account that granted access.
OauthStart(s, K) ==
    /\ MayStart(s, K)
    /\ \E sub \in Subjects, fail \in K.fail :
        LET r == NewReq(s, "oauth", sub, Null, Null, Null)
        IN req' = [req EXCEPT ![s] =
              IF fail THEN [Respond(r, 500, [Error |-> ErrOauth]) EXCEPT !.err = ErrOauth]
              ELSE [r EXCEPT !.pc = "oa_info"]]
    /\ UNCHANGED <<hives, queens, nextHiveId, bg, users>>

\* getUserInfo: the names of the account.
OauthInfo(s, K) ==
    /\ req[s].pc = "oa_info"
    /\ \E fail \in K.fail :
        req' = [req EXCEPT ![s] =
            IF fail
            THEN [Respond(req[s], 500, [Error |-> ErrOauth]) EXCEPT !.err = ErrOauth]
            ELSE [req[s] EXCEPT !.pc = "oa_save", !.data = UserInfo(req[s].auth)]]
    /\ UNCHANGED <<hives, queens, nextHiveId, bg, users>>

\* createUser(userInfo): datastore.save of a new entity, then the page with
\* the names and the token.
OauthSave(s, K) ==
    /\ req[s].pc = "oa_save"
    /\ \E fail \in K.fail :
        IF fail
        THEN /\ req' = [req EXCEPT ![s] =
                  [Respond(req[s], 500, [Error |-> ErrStore]) EXCEPT !.err = ErrStore]]
             /\ users' = users
        ELSE /\ Len(users) < MaxUsers
             /\ users' = Append(users, createUser_newUser(req[s].data))
             /\ req' = [req EXCEPT ![s] = Respond(req[s], 200, req[s].data)]
    /\ UNCHANGED <<hives, queens, nextHiveId, bg>>

\* Logins of both accounts on two connections; each call to the identity
\* service or to the datastore may be rejected.
KLogin == [KSeq EXCEPT !.slots = {1, 2}, !.seq = FALSE, !.fail = BOOLEAN]

NextLogin ==
    \E s \in KLogin.slots :
        \/ OauthStart(s, KLogin)
        \/ OauthInfo(s, KLogin)
        \/ OauthSave(s, KLogin)

SpecLogin == Init /\ [][NextLogin]_vars

\* The Users entities stored for a subject.
UsersOf(sub) == {i \in DOMAIN users : users[i].userId = sub}

\* C22 (one beekeeper record per subject): the store holds at most one Users
\* entity for a subject, and exactly one once a login of that subject was
\* answered 200.
C22_OneBeekeeperPerSubject ==
    /\ \A sub \in Subjects : Cardinality(UsersOf(sub)) <= 1
    /\ \A s \in Slots :
          (req[s].op = "oauth" /\ req[s].pc = "done" /\ req[s].status = 200)
              => Cardinality(UsersOf(req[s].auth)) = 1

\* ------------------------------------------------------------------------
\* Queens
\* ------------------------------------------------------------------------
\* The step is a POST /queens whose Content-Type is application/json and
\* whose body supplies name, species and age, with name and species made of
\* letters, digits and spaces.
ValidCreateQueen(s) ==
    /\ req'[s] # req[s]
    /\ req'[s].op = "createQueen"
    /\ req'[s].body.ct
    /\ req'[s].body.has = QueenAttrs
    /\ verifyAttribute(req'[s].body.name)
    /\ verifyAttribute(req'[s].body.species)

\* C23 (queen creation): a valid POST /queens is answered 201 and stores,
\* under an id that held no queen, a queen with the body's attributes and no
\* hive.
C23_CreateQueenStores ==
    [][\A s \in Slots :
          ValidCreateQueen(s) =>
              /\ req'[s].pc = "done" /\ req'[s].status = 201
              /\ \E j \in QueenIds :
                    /\ queens[j] = Null
                    /\ queens'[j] = [name |-> req'[s].body.name,
                                     species |-> req'[s].body.species,
                                     age |-> req'[s].body.age,
                                     hive |-> Null]]_vars

\* ------------------------------------------------------------------------
\* Failed remove and failed assign
\* ------------------------------------------------------------------------
\* The step is a link of a remove request by the beekeeper of a stored hive
\* that ends the request with 'Queen is not associated with this hive' or
\* 'Hive and/or queen not found', or that leads to the read of the queen.
RemoveChecks(s) ==
    /\ req'[s] # req[s]
    /\ req'[s].op = "removeQueen"
    /\ hives[parseInt(req'[s].hid)] # Null
    /\ hives[parseInt(req'[s].hid)].beekeeper = req'[s].auth
    /\ \/ req'[s].pc = "r_getq"
       \/ Free(req'[s]) /\ req'[s].err \in {ErrNotAssoc, ErrNotFound}

\* C24 (failed remove): a remove that fails because the hive does not hold
\* the queen, because the queen is not stored, or because the queen does
\* not reference the hive, fails in its first or second link, and neither
\* that link nor the one before it changes a stored hive or a stored queen.
C24_FailedRemoveWritesNothing ==
    [][\A s \in Slots :
          RemoveChecks(s) =>
              /\ Free(req[s]) \/ req[s].pc = "r_getq"
              /\ hives' = hives
              /\ queens' = queens
              /\ Free(req'[s]) => (req'[s].pc = "done" /\ req'[s].status \in {403, 404})]_vars

\* C24 witness: a remove was answered 403 for a hive that holds the queen
\* while the stored queen references no hive, and the hive still holds the
\* queen.
C24_Witness ==
    \E s \in Slots :
        /\ req[s].op = "removeQueen" /\ req[s].pc = "done"
        /\ req[s].err = ErrNotAssoc
        /\ HiveRefs(hives, parseInt(req[s].hid), parseInt(req[s].qid))
        /\ hives[parseInt(req[s].hid)].queen.id = req[s].qid
        /\ queens[parseInt(req[s].qid)] # Null
        /\ queens[parseInt(req[s].qid)].hive = Null

\* The step is the first or the second link of an assign request by the
\* beekeeper of a stored hive, for a queen id under which no queen is stored.
AssignOfAbsentQueen(s) ==
    /\ req'[s] # req[s]
    /\ req'[s].op = "assignQueen"
    /\ Free(req[s]) \/ req[s].pc = "a_getq"
    /\ hives[parseInt(req'[s].hid)] # Null
    /\ hives[parseInt(req'[s].hid)].beekeeper = req'[s].auth
    /\ queens[parseInt(req'[s].qid)] = Null

\* C25 (assign of an absent queen): an assign by the beekeeper of a stored
\* hive for a queen that is not stored writes nothing and is answered 404
\* 'Hive and/or queen not found' by its second link.
C25_AssignAbsentQueenNotFound ==
    [][\A s \in Slots :
          AssignOfAbsentQueen(s) =>
              /\ hives' = hives
              /\ queens' = queens
              /\ \/ Free(req[s]) /\ req'[s].pc = "a_getq"
                 \/ /\ req[s].pc = "a_getq"
                    /\ req'[s].pc = "done"
                    /\ req'[s].status = 404
                    /\ req'[s].err = ErrNotFound
                    /\ req'[s].data = [Error |-> ErrNotFound]]_vars

\* C25 witness: an assign by the beekeeper of a stored hive was answered 404
\* while no queen is stored under the id, the hive holds no queen and the
\* other queen is stored.
C25_Witness ==
    \E s \in Slots :
        /\ req[s].op = "assignQueen" /\ req[s].pc = "done" /\ req[s].status = 404
        /\ hives[parseInt(req[s].hid)] # Null
        /\ hives[parseInt(req[s].hid)].beekeeper = req[s].auth
        /\ hives[parseInt(req[s].hid)].queen = Null
        /\ queens[parseInt(req[s].qid)] = Null
        /\ \E j \in QueenIds : queens[j] # Null

\* ------------------------------------------------------------------------
\* PATCH /hives/:hive_id
\* ------------------------------------------------------------------------
\* POST /hives, assign and PATCH by the beekeeper, with PATCH bodies that
\* supply every subset of the three attributes, each with a value that
\* differs from the one POST stored.
PatchBodies == {Body(TRUE, has, TextB, TextB, 2) : has \in SUBSET HiveAttrs}

KPatch == [KSeq EXCEPT !.forms = {"canon"}, !.hiveBodies = PatchBodies]

NextPatch ==
    \E s \in KPatch.slots :
        \/ CreateHive(s, KPatch)
        \/ AssignStart(s, KPatch)
        \/ AssignStep(s, KPatch)
        \/ PatchHiveStart(s, KPatch)
        \/ PatchHiveSave(s, KPatch)

SpecPatch == Init /\ [][NextPatch]_vars

\* The value of an attribute after a PATCH with the given body.
Patched(body, attr, supplied, stored) ==
    IF attr \in body.has THEN supplied ELSE stored

\* C26 (frame of PATCH): the step that answers PATCH /hives/:hive_id with
\* 200 stores the hive as it was stored with each of hiveName, structureType
\* and colonySize that the body supplies replaced by the body's value; the
\* attributes not supplied, the beekeeper and the queen are as they were,
\* and every other hive and every queen is as stored.
C26_PatchChangesSuppliedFieldsOnly ==
    [][\A s \in Slots :
          ( /\ req[s].op = "patchHive" /\ req[s].pc = "pa_save"
            /\ req'[s].pc = "done" /\ req'[s].status = 200 )
          => LET i == parseInt(req[s].hid)
                 b == req[s].body
             IN
             /\ hives[i] # Null
             /\ hives' = [hives EXCEPT ![i] =
                    [hiveName |-> Patched(b, "hiveName",
                                          b.hiveName, hives[i].hiveName),
                     structureType |-> Patched(b, "structureType",
                                          b.structureType, hives[i].structureType),
                     colonySize |-> Patched(b, "colonySize",
                                          b.colonySize, hives[i].colonySize),
                     beekeeper |-> hives[i].beekeeper,
                     queen |-> hives[i].queen]]
             /\ queens' = queens]_vars

\* C26 witness: a PATCH that supplied colonySize only was answered 200 for a
\* hive that holds a queen; the stored hive has the new colonySize, the name
\* POST gave it, and the queen.
C26_Witness ==
    \E s \in Slots :
        /\ req[s].op = "patchHive" /\ req[s].pc = "done" /\ req[s].status = 200
        /\ req[s].body.has = {"colonySize"}
        /\ hives[parseInt(req[s].hid)] # Null
        /\ hives[parseInt(req[s].hid)].colonySize = 2
        /\ hives[parseInt(req[s].hid)].hiveName = TextA
        /\ hives[parseInt(req[s].hid)].queen # Null

\* ------------------------------------------------------------------------
\* Concurrent assigns
\* ------------------------------------------------------------------------
\* POST /hives and assign by the beekeeper on two connections; a request is
\* sent whenever its connection is free, so the links of two assign chains
\* interleave.
KRace == [KSeq EXCEPT !.slots = {1, 2}, !.seq = FALSE, !.forms = {"canon"}]

NextRace ==
    \/ CreateHive(1, KRace)
    \/ \E s \in KRace.slots :
          \/ AssignStart(s, KRace)
          \/ AssignStep(s, KRace)

SpecRace == Init /\ [][NextRace]_vars

\* The last requests of connections s and t are ended assigns of one queen
\* to two different hives.
AssignedSameQueen(s, t) ==
    /\ s # t
    /\ req[s].op = "assignQueen" /\ Free(req[s])
    /\ req[t].op = "assignQueen" /\ Free(req[t])
    /\ parseInt(req[s].qid) = parseInt(req[t].qid)
    /\ parseInt(req[s].hid) # parseInt(req[t].hid)

\* C27 (concurrent assigns of one queen): of two assigns of one queen to two
\* different hives, at most one is answered 204, and once both have ended at
\* most one of the two hives references the queen.
C27_ConcurrentAssignsOneWinner ==
    \A s \in Slots, t \in Slots :
        AssignedSameQueen(s, t) =>
            /\ ~(req[s].status = 204 /\ req[t].status = 204)
            /\ ~( /\ HiveRefs(hives, parseInt(req[s].hid), parseInt(req[s].qid))
                  /\ HiveRefs(hives, parseInt(req[t].hid), parseInt(req[t].qid)) )

\* ------------------------------------------------------------------------
\* Deleted hives
\* ------------------------------------------------------------------------
\* C28 (a deleted hive stays deleted): once DELETE /hives/:hive_id has been
\* answered 204, no hive is stored under that id, whatever the chains the
\* request started do afterwards.
C28_DeletedHiveStaysDeleted ==
    \A s \in Slots :
        (req[s].op = "deleteHive" /\ req[s].pc = "done" /\ req[s].status = 204)
            => hives[parseInt(req[s].hid)] = Null

\* ------------------------------------------------------------------------
\* Updates of a queen
\* ------------------------------------------------------------------------
\* C29 (queen updates keep the relation): no step of a PUT or PATCH of a
\* stored queen changes the hive the stored queen references.
C29_QueenUpdateKeepsHive ==
    [][\A s \in Slots :
          ( /\ req'[s] # req[s]
            /\ req'[s].op \in {"putQueen", "patchQueen"}
            /\ queens[parseInt(req'[s].qid)] # Null )
          => LET j == parseInt(req'[s].qid) IN
             /\ queens'[j] # Null
             /\ queens'[j].hive = queens[j].hive]_vars

\* ------------------------------------------------------------------------
\* Attribute updates that run with assign and remove
\* ------------------------------------------------------------------------
\* POST /hives, PUT and PATCH sent by the beekeeper on connection 1, assign
\* and remove sent by the beekeeper on connection 2; a request is sent
\* whenever its connection is free, so the reads and writes of an attribute
\* update interleave with those of an assign or a remove.
KLost == [KSeq EXCEPT !.slots = {1, 2}, !.seq = FALSE,
                      !.forms = {"canon"}, !.hiveBodies = {BodyB}]

NextLost ==
    \/ CreateHive(1, KLost)
    \/ PutHiveStart(1, KLost)
    \/ PutHiveSave(1, KLost)
    \/ PatchHiveStart(1, KLost)
    \/ PatchHiveSave(1, KLost)
    \/ AssignStart(2, KLost)
    \/ AssignStep(2, KLost)
    \/ RemoveStart(2, KLost)
    \/ RemoveStep(2, KLost)

SpecLost == Init /\ [][NextLost]_vars

\* The last request of connection s is an answered PUT or PATCH of a hive
\* and the last request of connection t is an assign or a remove on that
\* hive answered 204.
UpdateAndRelationEnded(s, t) ==
    /\ req[s].op \in {"putHive", "patchHive"}
    /\ req[s].pc = "done" /\ req[s].status \in {200, 303}
    /\ req[t].op \in {"assignQueen", "removeQueen"}
    /\ req[t].pc = "done" /\ req[t].status = 204
    /\ parseInt(req[s].hid) = parseInt(req[t].hid)

\* C30 (no lost relation update): once a PUT or PATCH of a hive and an
\* assign or remove on that hive have both been answered, the stored hive
\* references the queen of the assign, or no queen after the remove, and
\* has the attributes of the PUT or PATCH body.
C30_NoLostRelationUpdate ==
    \A s \in Slots, t \in Slots :
        UpdateAndRelationEnded(s, t) =>
            LET hive == hives[parseInt(req[s].hid)] IN
            /\ hive # Null
            /\ req[t].op = "assignQueen" =>
                    HiveRefs(hives, parseInt(req[t].hid), parseInt(req[t].qid))
            /\ req[t].op = "removeQueen" => hive.queen = Null
            /\ hive.hiveName = req[s].body.hiveName
            /\ hive.structureType = req[s].body.structureType
            /\ hive.colonySize = req[s].body.colonySize

====
